---------------------------- MODULE Spec2Model ----------------------------
(***************************************************************************)
(* LWS - LuminousWordSearch.                                               *)
(*                                                                         *)
(* A model of DocumentProcessor and of the search handler of the GUI       *)
(* (src/LWS.py), with the matching code of the earlier variant             *)
(* (src/Main.py) beside it.                                                *)
(*                                                                         *)
(* Text is modelled character by character: a string is a sequence of      *)
(* one-character strings, so that patterns, case folding, the <<  >>       *)
(* markers and substring tests are computed as the code computes them.     *)
(*                                                                         *)
(* Three specifications:                                                   *)
(*   SpecMatch  process_text and count_matches as functions of a query     *)
(*              and a sentence drawn from bounded sets;                    *)
(*   SpecPages  process_text on documents of several pages, drawn from     *)
(*              bounded sets, some pages without a sentence;               *)
(*   Spec       the search handler: construction and reuse of the          *)
(*              DocumentProcessor, the dispatch of one task per document,  *)
(*              the workers, the collection of the results, and the        *)
(*              calls of the handler that the event loop makes from the    *)
(*              self.update() of a call under way.                         *)
(***************************************************************************)
EXTENDS Integers, Sequences, FiniteSets, TLC

VARIABLES
    \* ---- SpecMatch: one call of process_text / count_matches
    impl,        \* "LWS" or "Main": which file's DocumentProcessor is run
    query,       \* the DocumentProcessor's (search_word, restrict, synonyms)
    pages,       \* the document: a sequence of pages, each a sequence of sentences
    matches,     \* what process_text returned
    counted,     \* what count_matches returned: <<direct_matches, synonym_matches>>
    mpc,         \* "ready", "matched", "counted"
    \* ---- Spec: the GUI and its DocumentProcessor
    wordnet,     \* the lexical source: word -> lemma names
    processor,   \* LWSgui.processor: None or the DocumentProcessor's fields
    current_directory,
    pc,          \* where search() is: "idle", "update", "dispatch", "collect",
                 \* "unwind" ("off" under SpecMatch, which has no GUI)
    run,         \* the locals of the running search() and process_files()
    stack,       \* the locals of the calls of search() that wait in self.update()
                 \* for the search() the event loop called from there
    last         \* how the last search() ended, and what it showed

vars == <<impl, query, pages, matches, counted, mpc,
          wordnet, processor, current_directory, pc, run, stack, last>>

matchVars == <<impl, query, pages, matches, counted, mpc>>
guiVars == <<wordnet, processor, current_directory, pc, run, stack, last>>

\* Python's None, where a record or a result may stand
None == [none |-> TRUE]

\* LWSgui.current_directory before the first search
NoDirectory == "None"

(***************************************************************************)
(* Bounds of the model.                                                    *)
(***************************************************************************)
MaxSentenceLen == 3     \* characters in a sentence (SpecMatch)
MaxWordLen == 2         \* characters in the search word (SpecMatch)
MaxSearches == 2        \* search() calls in one behaviour (Spec)
MaxPages == 3           \* pages of a document (SpecPages)
MaxSentencesInPage == 2 \* sentences of a page (SpecPages)

(***************************************************************************)
(* Characters.  "a", "A", "b" are word characters (\w), " " and "<" are    *)
(* not; "." is the one regex metacharacter the search word may hold.       *)
(***************************************************************************)
SentenceAlphabet == {"a", "A", "b", " ", "<"}
WordAlphabet == {"a", "b", "."}

Strings(alphabet, n) == UNION {[1..k -> alphabet] : k \in 1..n}

\* str.lower() on one character, and the folding re.IGNORECASE applies
Lower(c) == IF c = "A" THEN "a" ELSE c

LowerStr(s) == [i \in 1..Len(s) |-> Lower(s[i])]

\* \w
IsWordChar(c) == c \in {"a", "A", "b"}

\* Python's  needle in haystack
Contains(haystack, needle) ==
    \E i \in 0..(Len(haystack) - Len(needle)) :
        \A k \in 1..Len(needle) : haystack[i + k] = needle[k]

(***************************************************************************)
(* Patterns.  A pattern is an ordered alternation of alternatives, each a  *)
(* sequence of atoms (a literal character or the wildcard "."), with or    *)
(* without \b on both sides.                                               *)
(***************************************************************************)

\* '{}'.format(self._search_word): the word is embedded as it is, so its "."
\* is the regex wildcard
RawAtoms(word) == [i \in 1..Len(word) |-> [any |-> word[i] = ".", ch |-> word[i]]]

\* re.escape(synonym): every character is a literal
EscapedAtoms(syn) == [i \in 1..Len(syn) |-> [any |-> FALSE, ch |-> syn[i]]]

\* '|'.join(map(re.escape, self.synonyms)): with no synonym the joined text is
\* empty and the alternation ends in an empty alternative, (word|)
JoinedSynonyms(synonyms) ==
    IF synonyms = <<>> THEN << <<>> >>
    ELSE [i \in 1..Len(synonyms) |-> EscapedAtoms(synonyms[i])]

\* LWS.py: \b only in restricted mode
LWS_search_pattern(q, restrict) ==
    IF restrict
    THEN [bounded |-> TRUE, alts |-> <<RawAtoms(q.search_word)>>]
    ELSE [bounded |-> FALSE,
          alts |-> <<RawAtoms(q.search_word)>> \o JoinedSynonyms(q.synonyms)]

\* Main.py: \b in both modes
Main_search_pattern(q, restrict) ==
    IF restrict
    THEN [bounded |-> TRUE, alts |-> <<RawAtoms(q.search_word)>>]
    ELSE [bounded |-> TRUE,
          alts |-> <<RawAtoms(q.search_word)>> \o JoinedSynonyms(q.synonyms)]

search_pattern(im, q, restrict) ==
    IF im = "LWS" THEN LWS_search_pattern(q, restrict)
    ELSE Main_search_pattern(q, restrict)

(***************************************************************************)
(* The regex engine, as far as these patterns need it.                     *)
(***************************************************************************)

\* \b at offset i of s (between s[i] and s[i+1])
Boundary(s, i) ==
    (i > 0 /\ IsWordChar(s[i])) # (i < Len(s) /\ IsWordChar(s[i + 1]))

AtomMatches(atom, c, ignorecase) ==
    \/ atom.any
    \/ IF ignorecase THEN Lower(atom.ch) = Lower(c) ELSE atom.ch = c

\* alternative alt matches s at offset i, between the pattern's \b if it has them
AltMatchesAt(pat, alt, s, i, ignorecase) ==
    /\ i + Len(alt) <= Len(s)
    /\ \A k \in 1..Len(alt) : AtomMatches(alt[k], s[i + k], ignorecase)
    /\ pat.bounded => (Boundary(s, i) /\ Boundary(s, i + Len(alt)))

\* The length of the match at offset i, -1 when there is none: the first
\* alternative, in the pattern's order, that matches (backtracking over the
\* alternation); after an empty match at i only a non-empty one may follow at i.
MatchAt(pat, s, i, ignorecase, mustAdvance) ==
    LET ok == {k \in 1..Len(pat.alts) :
                  /\ AltMatchesAt(pat, pat.alts[k], s, i, ignorecase)
                  /\ mustAdvance => Len(pat.alts[k]) > 0}
    IN  IF ok = {} THEN -1
        ELSE Len(pat.alts[CHOOSE k \in ok : \A j \in ok : k <= j])

\* The non-overlapping matches from offset i on, left to right, as re.findall,
\* re.finditer and re.sub scan: a sequence of [at, len].
RECURSIVE Scan(_, _, _, _, _)
Scan(pat, s, i, ignorecase, mustAdvance) ==
    IF i > Len(s) THEN <<>>
    ELSE LET m == MatchAt(pat, s, i, ignorecase, mustAdvance)
         IN  IF m = -1 THEN Scan(pat, s, i + 1, ignorecase, FALSE)
             ELSE IF m = 0
                  THEN <<[at |-> i, len |-> 0]>> \o Scan(pat, s, i, ignorecase, TRUE)
                  ELSE <<[at |-> i, len |-> m]>> \o Scan(pat, s, i + m, ignorecase, FALSE)

\* re.findall(search_pattern, line, re.IGNORECASE)
FindAll(pat, line) == Scan(pat, line, 0, TRUE, FALSE)

SubStr(s, from, to) == [k \in 1..(to - from) |-> s[from + k]]

\* the text from offset pos on with each span of spans wrapped in << >>
RECURSIVE Wrap(_, _, _)
Wrap(s, pos, spans) ==
    IF spans = <<>> THEN SubStr(s, pos, Len(s))
    ELSE LET m == Head(spans)
         IN  SubStr(s, pos, m.at) \o <<"<", "<">> \o SubStr(s, m.at, m.at + m.len)
                 \o <<">", ">">> \o Wrap(s, m.at + m.len, Tail(spans))

\* re.sub(search_pattern, lambda m: f'<<{m.group(0)}>>', line): no flags, so
\* the substitution scans case-sensitively
Highlight(pat, line) == Wrap(line, 0, Scan(pat, line, 0, FALSE, FALSE))


(***************************************************************************)
(* DocumentProcessor: the matching.                                        *)
(***************************************************************************)

\* search_file, after extraction: one (page_num, sentence) per sentence, pages
\* in order, the sentences of a page in order
RECURSIVE LinesOfPages(_, _)
LinesOfPages(pgs, page_num) ==
    IF pgs = <<>> THEN <<>>
    ELSE [k \in 1..Len(Head(pgs)) |-> [page_num |-> page_num, line |-> Head(pgs)[k]]]
             \o LinesOfPages(Tail(pgs), page_num + 1)

\* a loop that numbers the sentences through the document, not restarting at
\* a new page
RECURSIVE LWS_process_lines_NoRestart(_, _, _, _, _, _)
LWS_process_lines_NoRestart(q, lines, restrict, k, prev_page_num, sentence_num_in_page) ==
    IF k > Len(lines) THEN <<>>
    ELSE LET pat == LWS_search_pattern(q, restrict)
             here == IF FindAll(pat, lines[k].line) # <<>>
                     THEN <<[page_num |-> lines[k].page_num,
                             sentence_num |-> sentence_num_in_page,
                             line_highlighted |-> Highlight(pat, lines[k].line)]>>
                     ELSE <<>>
         IN  here \o LWS_process_lines_NoRestart(q, lines, restrict, k + 1,
                                                 lines[k].page_num,
                                                 sentence_num_in_page + 1)

\* LWS.py process_text: the loop over lines from line k on
RECURSIVE LWS_process_lines(_, _, _, _, _, _)
LWS_process_lines(q, lines, restrict, k, prev_page_num, sentence_num_in_page) ==
    IF k > Len(lines) THEN <<>>
    ELSE LET page_num == lines[k].page_num
             line == lines[k].line
             num == IF prev_page_num # page_num THEN 0 ELSE sentence_num_in_page
             pat == LWS_search_pattern(q, restrict)
             found_words == FindAll(pat, line)
             here == IF found_words # <<>>
                     THEN <<[page_num |-> page_num, sentence_num |-> num,
                             line_highlighted |-> Highlight(pat, line)]>>
                     ELSE <<>>
         IN  here \o LWS_process_lines(q, lines, restrict, k + 1, page_num, num + 1)

LWS_process_text(q, lines, restrict) == LWS_process_lines(q, lines, restrict, 1, 0, 0)

\* Main.py process_text: pages and, in each page, its sentences, both enumerated
RECURSIVE Main_process_pages(_, _, _, _)
Main_process_pages(q, text_list, restrict, page_num) ==
    IF page_num >= Len(text_list) THEN <<>>
    ELSE LET lines == text_list[page_num + 1]
             pat == Main_search_pattern(q, restrict)
             hit == {n \in 1..Len(lines) : FindAll(pat, lines[n]) # <<>>}
             RECURSIVE OfPage(_)
             OfPage(n) ==
                 IF n > Len(lines) THEN <<>>
                 ELSE (IF n \in hit
                       THEN <<[page_num |-> page_num, sentence_num |-> n - 1,
                               line_highlighted |-> Highlight(pat, lines[n])]>>
                       ELSE <<>>) \o OfPage(n + 1)
         IN  OfPage(1) \o Main_process_pages(q, text_list, restrict, page_num + 1)

Main_process_text(q, text_list, restrict) == Main_process_pages(q, text_list, restrict, 0)

\* search_file from the extracted sentences on: restrict is passed on as the
\* processor has it
MatchDocument(im, q, pgs) ==
    IF im = "LWS" THEN LWS_process_text(q, LinesOfPages(pgs, 0), q.restrict)
    ELSE Main_process_text(q, pgs, q.restrict)

\* count_matches: a match is direct when the lowered word is in the lowered
\* highlighted line
RECURSIVE CountLines(_, _)
CountLines(line_lists, search_word) ==
    IF line_lists = <<>> THEN <<0, 0>>
    ELSE LET rest == CountLines(Tail(line_lists), search_word)
         IN  IF Contains(LowerStr(Head(line_lists).line_highlighted), LowerStr(search_word))
             THEN <<rest[1] + 1, rest[2]>>
             ELSE <<rest[1], rest[2] + 1>>

RECURSIVE count_matches(_, _)
count_matches(result, search_word) ==
    IF result = <<>> THEN <<0, 0>>
    ELSE LET one == CountLines(Head(result).matches, search_word)
             rest == count_matches(Tail(result), search_word)
         IN  <<one[1] + rest[1], one[2] + rest[2]>>

(***************************************************************************)
(* The lexical source and the derived synonyms.                            *)
(***************************************************************************)
synB == <<"b">>
synBA == <<"b", "a">>
synA == <<"A">>

\* the lists wordnet may give for a word, in the order list(set) gives them
SynonymLists == {<<>>, <<synB>>, <<synBA>>, <<synB, synBA>>, <<synBA, synB>>, <<synA>>}

\* get_synonyms: the lemma names of the word's synsets
get_synonyms(wn, word) == wn[word]

\* LWS.py __init__ and both setters: synonyms follow (word, restrict)
LWS_synonyms(wn, word, restrict) == IF ~restrict THEN get_synonyms(wn, word) ELSE <<>>

\* Main.py __init__: synonyms are computed whatever restrict is
Main_synonyms(wn, word, restrict) == get_synonyms(wn, word)

(***************************************************************************)
(* SpecMatch: a query and a one-sentence document are drawn; process_text  *)
(* is run on it, then count_matches on its result.                         *)
(***************************************************************************)
IdleGui ==
    /\ processor = None
    /\ current_directory = NoDirectory
    /\ pc = "off"
    /\ run = None
    /\ stack = <<>>
    /\ last = None

InitMatch ==
    /\ impl \in {"LWS", "Main"}
    /\ \E word \in Strings(WordAlphabet, MaxWordLen), restrict \in BOOLEAN,
          syn \in SynonymLists :
          /\ wordnet = [w \in {word} |-> syn]
          /\ query = [search_word |-> word, restrict |-> restrict,
                      synonyms |-> IF impl = "LWS"
                                   THEN LWS_synonyms(wordnet, word, restrict)
                                   ELSE Main_synonyms(wordnet, word, restrict)]
    /\ \E s \in Strings(SentenceAlphabet, MaxSentenceLen) : pages = << <<s>> >>
    /\ matches = <<>>
    /\ counted = <<0, 0>>
    /\ mpc = "ready"
    /\ IdleGui

ProcessText ==
    /\ mpc = "ready"
    /\ matches' = MatchDocument(impl, query, pages)
    /\ mpc' = "matched"
    /\ UNCHANGED <<impl, query, pages, counted, guiVars>>

CountMatches ==
    /\ mpc = "matched"
    /\ counted' = count_matches(<<[file_path |-> "doc", n |-> Len(matches), matches |-> matches]>>,
                                query.search_word)
    /\ mpc' = "counted"
    /\ UNCHANGED <<impl, query, pages, matches, guiVars>>

NextMatch == ProcessText \/ CountMatches

SpecMatch == InitMatch /\ [][NextMatch]_vars

(***************************************************************************)
(* SpecPages: LWS.py's process_text (and count_matches) on a document of   *)
(* up to MaxPages pages with up to MaxSentencesInPage sentences each, as   *)
(* search_file extracts it.                                                *)
(***************************************************************************)
SeqsUpTo(S, n) == UNION {[1..k -> S] : k \in 0..n}

PageSentences == {<<"a">>, <<"b">>}

InitPages ==
    /\ impl = "LWS"
    /\ \E restrict \in BOOLEAN :
          /\ wordnet = [w \in {<<"a">>} |-> <<synB>>]
          /\ query = [search_word |-> <<"a">>, restrict |-> restrict,
                      synonyms |-> LWS_synonyms(wordnet, <<"a">>, restrict)]
    /\ pages \in SeqsUpTo(SeqsUpTo(PageSentences, MaxSentencesInPage), MaxPages)
    /\ matches = <<>>
    /\ counted = <<0, 0>>
    /\ mpc = "ready"
    /\ IdleGui

SpecPages == InitPages /\ [][NextMatch]_vars


(***************************************************************************)
(* The file system the GUI is pointed at.  F1 holds a readable document, a *)
(* corrupt one (its first page reads, its second raises) and a file that   *)
(* is no document; F2 holds two readable documents; F0 does not exist.     *)
(***************************************************************************)
Folders == {"F0", "F1", "F2"}

\* the folders of Folders that do not exist
MissingFolders == {"F0"}

\* os.walk(search_folder): the files in the order the walk gives them; a
\* folder that does not exist gives none (os.walk ignores the listing error)
Walk(folder) ==
    CASE folder = "F1" -> <<[path |-> "F1/d1.pdf", ext |-> ".pdf"],
                            [path |-> "F1/n.txt", ext |-> ".txt"],
                            [path |-> "F1/d2.docx", ext |-> ".docx"]>>
      [] folder = "F2" -> <<[path |-> "F2/d3.docx", ext |-> ".docx"],
                            [path |-> "F2/d4.pdf", ext |-> ".pdf"]>>
      [] OTHER -> <<>>

\* file.endswith(".pdf") or file.endswith(".docx")
IsDocument(file) == file.ext \in {".pdf", ".docx"}

Corrupt == "corrupt"

\* what extraction and sent_tokenize give for a file: its pages, each a
\* sequence of sentences or Corrupt when reading that page raises; Corrupt for
\* the whole when opening the file raises
Content(path) ==
    CASE path = "F1/d1.pdf" -> << <<<<"a">>>>, <<<<"b", " ", "A">>, <<"b">>>> >>
      [] path = "F1/d2.docx" -> << <<<<"b">>>>, Corrupt >>
      [] path = "F2/d3.docx" -> << <<<<"b">>>> >>
      [] path = "F2/d4.pdf" -> << <<>>, <<<<"a", "b">>>> >>
      [] OTHER -> Corrupt

\* what the user may have typed as the search word; <<>> is the empty entry
GuiWords == {<<"a">>, <<"b">>}

\* nltk's words.words(), as far as the search words go
Dictionary == {<<"a">>}

EmptyMap == [x \in {} |-> <<>>]

(***************************************************************************)
(* DocumentProcessor: construction, setters, enumeration.                  *)
(***************************************************************************)

\* get_all_docs: the number of documents under the folder
get_all_docs(folder) == Len(SelectSeq(Walk(folder), IsDocument))

\* a get_files that goes through the folder twice
get_files_twice(folder) ==
    LET docs == SelectSeq(Walk(folder), IsDocument)
    IN  [i \in 1..(2 * Len(docs)) |-> docs[((i - 1) % Len(docs)) + 1].path]

\* get_files: the (normalized) paths in the order they are yielded
get_files(folder) ==
    LET docs == SelectSeq(Walk(folder), IsDocument)
    IN  [i \in 1..Len(docs) |-> docs[i].path]

\* a get_files that yields a path without counting it
get_files_uncounted(p) == p

\* get_files, line 85: the processor when one more path has been yielded
get_files_count(p) == [p EXCEPT !.docs_count = @ + 1]

\* __init__
DocumentProcessor(wn, folder, word, restrict) ==
    [search_folder |-> folder,
     search_word |-> word,
     restrict |-> restrict,
     synonyms |-> LWS_synonyms(wn, word, restrict),
     docs_count |-> 0,
     all_docs |-> get_all_docs(folder),
     tokenized_sentences |-> EmptyMap]

\* a search_word setter that stores the word and leaves the synonyms as they
\* were
SetSearchWord_StaleSynonyms(wn, p, new_search_word) ==
    [p EXCEPT !.search_word = new_search_word]

\* the search_word setter
SetSearchWord(wn, p, new_search_word) ==
    [p EXCEPT !.search_word = new_search_word,
              !.synonyms = LWS_synonyms(wn, new_search_word, p.restrict)]

\* a restrict_search setter that stores the flag and leaves the synonyms as
\* they were
SetRestrictSearch_StaleSynonyms(wn, p, new_restrict) ==
    [p EXCEPT !.restrict = new_restrict]

\* the restrict_search setter
SetRestrictSearch(wn, p, new_restrict) ==
    [p EXCEPT !.restrict = new_restrict,
              !.synonyms = LWS_synonyms(wn, p.search_word, new_restrict)]

\* a search() that makes the processor anew whenever the word or the flag is
\* another one too
ProcessorFor_NewOnQueryChange(wn, p, dir, folder, word, restrict) ==
    IF p = None \/ dir # folder \/ word # p.search_word \/ restrict # p.restrict
    THEN DocumentProcessor(wn, folder, word, restrict) ELSE p

\* search(), lines 247-256: the processor is made anew for another folder and
\* otherwise kept, its word and restrict brought to what was entered
ProcessorFor(wn, p, dir, folder, word, restrict) ==
    LET p1 == IF p = None \/ dir # folder
              THEN DocumentProcessor(wn, folder, word, restrict) ELSE p
        p2 == IF word # p1.search_word THEN SetSearchWord(wn, p1, word) ELSE p1
    IN  IF restrict # p2.restrict THEN SetRestrictSearch(wn, p2, restrict) ELSE p2

\* which of the three updates search() made
UpdatesMade(p, dir, folder, word, restrict) ==
    LET made == p = None \/ dir # folder
    IN  (IF made THEN {"processor"} ELSE {})
        \cup (IF ~made /\ word # p.search_word THEN {"search_word"} ELSE {})
        \cup (IF ~made /\ restrict # p.restrict THEN {"restrict_search"} ELSE {})

\* the calls of get_synonyms that __init__ and the setters made in lines
\* 247-256, each with the word and the restrict flag the processor held then
LookupsMade(p, dir, folder, word, restrict) ==
    LET made == p = None \/ dir # folder
        p1 == IF made THEN [search_word |-> word, restrict |-> restrict]
              ELSE [search_word |-> p.search_word, restrict |-> p.restrict]
        p2 == [p1 EXCEPT !.search_word = word]
    IN  (IF made /\ ~restrict
         THEN <<[search_word |-> word, restrict |-> restrict]>> ELSE <<>>)
        \o (IF word # p1.search_word /\ ~p1.restrict
            THEN <<[search_word |-> word, restrict |-> p1.restrict]>> ELSE <<>>)
        \o (IF restrict # p2.restrict /\ ~restrict
            THEN <<[search_word |-> p2.search_word, restrict |-> restrict]>> ELSE <<>>)

\* opening the file raises, or reading one of its pages does
Unreadable(content) ==
    IF content = Corrupt THEN TRUE
    ELSE \E i \in 1..Len(content) : content[i] = Corrupt

\* search_file: whether extraction is needed and raises
ExtractionFails(p, path) ==
    path \notin DOMAIN p.tokenized_sentences /\ Unreadable(Content(path))

\* a search_file that stores the sentences page by page, and so has stored
\* those of the pages before the one at which reading raises
search_file_raises_partial(p, path) ==
    LET content == Content(path)
        readable == IF content = Corrupt THEN <<>>
                    ELSE SubSeq(content, 1,
                                (CHOOSE i \in 1..Len(content) :
                                     /\ content[i] = Corrupt
                                     /\ \A k \in 1..(i - 1) : content[k] # Corrupt) - 1)
    IN  [p EXCEPT !.tokenized_sentences = (path :> LinesOfPages(readable, 0)) @@ @]

\* search_file when extraction raises: the processor as the call leaves it
\* (the one write of the cache, line 114, comes after every page was read and
\* segmented, and is not reached)
search_file_raises(p, path) == p

\* search_file: the sentences, from the cache or extracted
LinesFor(p, path) ==
    IF path \in DOMAIN p.tokenized_sentences THEN p.tokenized_sentences[path]
    ELSE LinesOfPages(Content(path), 0)

\* a search_file that returns [file_path, 0, []] when nothing matched
search_file_AlwaysResult(p, path) ==
    LET found == LWS_process_text(p, LinesFor(p, path), p.restrict)
    IN  [file_path |-> path, n |-> Len(found), matches |-> found]

\* search_file: the value returned, None when nothing matched
search_file(p, path) ==
    LET found == LWS_process_text(p, LinesFor(p, path), p.restrict)
    IN  IF found # <<>>
        THEN [file_path |-> path, n |-> Len(found), matches |-> found]
        ELSE None

(***************************************************************************)
(* Spec: the GUI.                                                          *)
(***************************************************************************)
NoRun == [outcome |-> "none", results |-> <<>>, futures |-> EmptyMap,
          progress_bar |-> <<0, 1>>, direct |-> 0, synonym |-> 0, searches |-> 0]

Init ==
    /\ impl = "LWS"
    /\ query = None
    /\ pages = <<>>
    /\ matches = <<>>
    /\ counted = <<0, 0>>
    /\ mpc = "off"
    /\ wordnet \in [GuiWords -> {<<>>, <<synB>>}]
    /\ processor = None
    /\ current_directory = NoDirectory
    /\ pc = "idle"
    /\ run = None
    /\ stack = <<>>
    /\ last = NoRun

\* search(), called by the event loop for the button or the Return key (from
\* the main loop, or from self.update() of a search() under way): nothing
\* entered, or the spelling question answered "no"
SearchDeclined ==
    /\ pc \in {"idle", "update"}
    /\ last.searches < MaxSearches
    /\ \E search_word \in GuiWords \cup {<<>>}, folder \in Folders \cup {""},
          response \in {"yes", "no"} :
          \/ search_word = <<>>
          \/ folder = ""
          \/ (search_word \notin Dictionary /\ response = "no")
    /\ last' = [last EXCEPT !.outcome = "declined", !.searches = @ + 1]
    /\ UNCHANGED <<matchVars, wordnet, processor, current_directory, pc, run, stack>>

\* search(), called by the event loop (from the main loop, or from
\* self.update() of a search() under way, which then waits for this one): the
\* entries are read, the processor is made or brought to them, the progress
\* bar is set to 0 and self.update() is entered
SearchStart ==
    /\ pc \in {"idle", "update"}
    /\ last.searches < MaxSearches
    /\ \E search_word \in GuiWords, folder \in Folders, restrict_search \in BOOLEAN :
          /\ processor' = ProcessorFor(wordnet, processor, current_directory,
                                       folder, search_word, restrict_search)
          /\ current_directory' = folder
          /\ run' = [search_word |-> search_word,
                     restrict_search |-> restrict_search,
                     folder |-> folder,
                     synonyms |-> <<>>,
                     updates |-> UpdatesMade(processor, current_directory,
                                             folder, search_word, restrict_search),
                     lookups |-> LookupsMade(processor, current_directory,
                                             folder, search_word, restrict_search),
                     docs_count_before |-> 0,
                     pending |-> <<>>,
                     futures |-> EmptyMap,
                     collected |-> {},
                     results |-> <<>>]
    /\ stack' = IF pc = "update" THEN <<run>> \o stack ELSE stack
    /\ pc' = "update"
    /\ last' = [last EXCEPT !.searches = @ + 1, !.progress_bar = <<0, 1>>]
    /\ UNCHANGED <<matchVars, wordnet>>

\* self.update() returns, no event being left: synonyms is read from the
\* processor, the progress bar is set to 0 and process_files is called, which
\* starts get_files on the processor's folder (docs_count_before: what
\* docs_count is at that call)
UpdateReturns ==
    /\ pc = "update"
    /\ run' = [run EXCEPT !.synonyms = processor.synonyms,
                          !.docs_count_before = processor.docs_count,
                          !.pending = get_files(processor.search_folder)]
    /\ pc' = IF get_files(processor.search_folder) = <<>> THEN "collect" ELSE "dispatch"
    /\ last' = [last EXCEPT !.progress_bar = <<0, 1>>]
    /\ UNCHANGED <<matchVars, wordnet, processor, current_directory, stack>>

\* process_files: get_files yields the next path, counting it, and the task is
\* submitted
Submit ==
    /\ pc = "dispatch"
    /\ LET path == Head(run.pending)
       IN  /\ processor' = get_files_count(processor)
           /\ run' = [run EXCEPT !.pending = Tail(@),
                                 !.futures = (path :> [state |-> "running"]) @@ @]
           /\ pc' = IF Tail(run.pending) = <<>> THEN "collect" ELSE "dispatch"
    /\ UNCHANGED <<matchVars, wordnet, current_directory, stack, last>>

\* a worker runs search_file to its return (extracted: whether this call
\* opened the file, lines 100-114, or found its sentences in the cache)
WorkerReturns ==
    /\ pc \in {"dispatch", "collect", "unwind"}
    /\ \E path \in DOMAIN run.futures :
          /\ run.futures[path].state = "running"
          /\ ~ExtractionFails(processor, path)
          /\ processor' = [processor EXCEPT !.tokenized_sentences =
                               (path :> LinesFor(processor, path)) @@ @]
          /\ run' = [run EXCEPT !.futures[path] =
                         [state |-> "returned", result |-> search_file(processor, path),
                          extracted |-> path \notin DOMAIN processor.tokenized_sentences]]
    /\ UNCHANGED <<matchVars, wordnet, current_directory, pc, stack, last>>

\* a worker's search_file raises: the document cannot be opened or read
WorkerRaises ==
    /\ pc \in {"dispatch", "collect", "unwind"}
    /\ \E path \in DOMAIN run.futures :
          /\ run.futures[path].state = "running"
          /\ ExtractionFails(processor, path)
          /\ processor' = search_file_raises(processor, path)
          /\ run' = [run EXCEPT !.futures[path] = [state |-> "raised"]]
    /\ UNCHANGED <<matchVars, wordnet, current_directory, pc, stack, last>>

\* process_files: as_completed gives a finished future and future.result()
\* returns: the result, if any, is added
Collect ==
    /\ pc = "collect"
    /\ \E path \in DOMAIN run.futures \ run.collected :
          /\ run.futures[path].state = "returned"
          /\ run' = [run EXCEPT !.collected = @ \cup {path},
                                !.results = IF run.futures[path].result # None
                                            THEN Append(@, run.futures[path].result)
                                            ELSE @]
    /\ UNCHANGED <<matchVars, wordnet, processor, current_directory, pc, stack, last>>

\* process_files: future.result() raises what the worker raised; the with
\* block is left and waits for the workers still running
CollectRaises ==
    /\ pc = "collect"
    /\ \E path \in DOMAIN run.futures \ run.collected :
          /\ run.futures[path].state = "raised"
          /\ run' = [run EXCEPT !.collected = @ \cup {path}]
    /\ pc' = "unwind"
    /\ UNCHANGED <<matchVars, wordnet, processor, current_directory, stack, last>>

\* every worker is done: the exception leaves process_files and search(), and
\* the event loop, which reports it, goes on: in the self.update() of the
\* search() that waits, if one does
Unwound ==
    /\ pc = "unwind"
    /\ \A path \in DOMAIN run.futures : run.futures[path].state # "running"
    /\ last' = [last EXCEPT !.outcome = "raised", !.results = <<>>,
                            !.futures = run.futures, !.direct = 0, !.synonym = 0]
    /\ pc' = IF stack = <<>> THEN "idle" ELSE "update"
    /\ run' = IF stack = <<>> THEN None ELSE Head(stack)
    /\ stack' = IF stack = <<>> THEN stack ELSE Tail(stack)
    /\ UNCHANGED <<matchVars, wordnet, processor, current_directory>>

\* process_files returns the results; search() shows each with its counts and
\* sets the progress bar to docs_count / all_docs, and returns to the event
\* loop: to the self.update() of the search() that waits, if one does
Return ==
    /\ pc = "collect"
    /\ run.collected = DOMAIN run.futures
    /\ LET shown == count_matches(run.results, run.search_word)
       IN  last' = [last EXCEPT !.outcome = "returned", !.results = run.results,
                                !.futures = run.futures,
                                !.progress_bar =
                                    IF run.results # <<>>
                                    THEN <<processor.docs_count, processor.all_docs>>
                                    ELSE @,
                                !.direct = shown[1], !.synonym = shown[2]]
    /\ pc' = IF stack = <<>> THEN "idle" ELSE "update"
    /\ run' = IF stack = <<>> THEN None ELSE Head(stack)
    /\ stack' = IF stack = <<>> THEN stack ELSE Tail(stack)
    /\ UNCHANGED <<matchVars, wordnet, processor, current_directory>>

Next ==
    \/ SearchDeclined
    \/ SearchStart
    \/ UpdateReturns
    \/ Submit
    \/ WorkerReturns
    \/ WorkerRaises
    \/ Collect
    \/ CollectRaises
    \/ Unwound
    \/ Return

Spec == Init /\ [][Next]_vars


(***************************************************************************)
(* Vocabulary of the claims.                                               *)
(***************************************************************************)

\* SpecMatch: the sentence process_text was given
Sentence == pages[1][1]

\* x is in s, case-insensitively
OccursIn(x, s) == Contains(LowerStr(s), LowerStr(x))

\* x is in s case-insensitively with no word character on either side of it
WholeWordOccursIn(x, s) ==
    \E i \in 0..(Len(s) - Len(x)) :
        /\ \A k \in 1..Len(x) : Lower(s[i + k]) = Lower(x[k])
        /\ i = 0 \/ ~IsWordChar(s[i])
        /\ i + Len(x) = Len(s) \/ ~IsWordChar(s[i + Len(x) + 1])

\* the alternatives that stand for the word and, unless restricted, the synonyms
QueryAlternatives(q) ==
    {RawAtoms(q.search_word)}
        \cup (IF q.restrict THEN {}
              ELSE {EscapedAtoms(q.synonyms[i]) : i \in 1..Len(q.synonyms)})

\* some alternative matches a non-empty span of s at offset i, case-insensitively
OccurrenceAt(q, s, i) ==
    \E alt \in QueryAlternatives(q) :
        /\ Len(alt) > 0
        /\ i + Len(alt) <= Len(s)
        /\ \A k \in 1..Len(alt) : AtomMatches(alt[k], s[i + k], TRUE)

\* ... with no word character on either side of the span
WholeWordOccurrenceAt(q, s, i) ==
    \E alt \in QueryAlternatives(q) :
        /\ Len(alt) > 0
        /\ i + Len(alt) <= Len(s)
        /\ \A k \in 1..Len(alt) : AtomMatches(alt[k], s[i + k], TRUE)
        /\ i = 0 \/ ~IsWordChar(s[i])
        /\ i + Len(alt) = Len(s) \/ ~IsWordChar(s[i + Len(alt) + 1])

\* s with every marker (a pair of the same character c) deleted, left to right
RECURSIVE DeletePairs(_, _)
DeletePairs(s, c) ==
    IF Len(s) < 2 THEN s
    ELSE IF s[1] = c /\ s[2] = c THEN DeletePairs(SubStr(s, 2, Len(s)), c)
         ELSE <<s[1]>> \o DeletePairs(Tail(s), c)

\* the highlighted text with its << and >> deleted
StripMarkers(highlighted) == DeletePairs(DeletePairs(highlighted, "<"), ">")

\* the search word holds no regex metacharacter (what a metacharacter in it
\* does is the subject of C12)
LiteralWord == \A i \in 1..Len(query.search_word) : query.search_word[i] # "."

\* the pattern has no empty alternative (what (word|) does is the subject of C4)
NoEmptyAlternative == query.restrict \/ query.synonyms # <<>>

\* Spec: a run has ended, by return or by exception
RunEnded == pc = "idle" /\ last.outcome \in {"returned", "raised"}

(***************************************************************************)
(* The claims.                                                             *)
(***************************************************************************)

\* C1: when search_file raises for one document of a run, process_files still
\* returns, and what it returns holds the result of every other document that
\* has a match.
C1_FailureDoesNotAbortRun ==
    (RunEnded /\ \E path \in DOMAIN last.futures : last.futures[path].state = "raised")
        => /\ last.outcome = "returned"
           /\ \A path \in DOMAIN last.futures :
                 (last.futures[path].state = "returned"
                      /\ last.futures[path].result # None)
                     => \E i \in 1..Len(last.results) :
                            last.results[i] = last.futures[path].result

\* C2: in every run of any sequence of runs docs_count never exceeds all_docs,
\* it equals all_docs when the run has ended, and the fraction shown on the
\* progress bar is at most 1.
C2_ProgressReachesTotal ==
    processor # None
        => /\ processor.docs_count <= processor.all_docs
           /\ RunEnded => processor.docs_count = processor.all_docs
           /\ last.progress_bar[1] <= last.progress_bar[2]

\* C3: when a search begins dispatching (no document yielded yet), docs_count is 0,
\* also for a later search against the same folder.
C3_ProgressResetAtStart ==
    (pc \in {"dispatch", "collect"} /\ DOMAIN run.futures = {})
        => processor.docs_count = 0

\* C4: process_text emits a Match for a sentence only if the sentence holds a
\* non-empty occurrence of the word or, unrestricted, of a synonym.
C4_NoMatchWithoutOccurrence ==
    (mpc = "matched" /\ matches # <<>>)
        => \E i \in 0..Len(Sentence) : OccurrenceAt(query, Sentence, i)

\* C5: unrestricted mode matches whole words as restricted mode does: a sentence
\* is a match only if the word or a synonym is in it as a whole word.  (Stated
\* for a literal word and a query that has synonyms.)
C5_WholeWordsInBothModes ==
    (mpc = "matched" /\ ~query.restrict /\ LiteralWord /\ NoEmptyAlternative
         /\ matches # <<>>)
        => \E i \in 0..Len(Sentence) : WholeWordOccurrenceAt(query, Sentence, i)

\* C6: in restricted mode a sentence is a match exactly when the search word is
\* in it, case-insensitively, as a whole word.
C6_RestrictedMatchesExactlyWholeWord ==
    (mpc = "matched" /\ query.restrict)
        => (matches # <<>> <=> WholeWordOccursIn(query.search_word, Sentence))

\* C7: the highlighted text of a Match wraps every span the case-insensitive
\* scan found, in its original case.  (Stated for patterns without an empty
\* alternative.)
C7_EveryFoundSpanIsMarked ==
    (mpc = "matched" /\ NoEmptyAlternative /\ matches # <<>>)
        => matches[1].line_highlighted
               = Wrap(Sentence, 0,
                      FindAll(search_pattern(impl, query, query.restrict), Sentence))

\* C8: deleting << and >> from the highlighted text of a Match gives the
\* sentence back.  (Stated for a literal word and patterns without an empty
\* alternative.)
C8_HighlightRoundTrip ==
    (mpc = "matched" /\ LiteralWord /\ NoEmptyAlternative /\ matches # <<>>)
        => StripMarkers(matches[1].line_highlighted) = Sentence

\* C9: count_matches gives direct + synonym = matchCount, and direct counts
\* exactly the Matches whose sentence holds the search word case-insensitively.
\* (Stated for a literal word, patterns without an empty alternative and
\* sentences without capitals, where the scan and the substitution agree.)
C9_ClassificationLaw ==
    (mpc = "counted" /\ LiteralWord /\ NoEmptyAlternative
         /\ Sentence = LowerStr(Sentence))
        => /\ counted[1] + counted[2] = Len(matches)
           /\ counted[1] = IF matches # <<>> /\ OccursIn(query.search_word, Sentence)
                           THEN 1 ELSE 0

C11_SynonymsFollowCurrentQuery ==
    /\ processor # None
           => processor.synonyms = IF processor.restrict THEN <<>>
                                   ELSE get_synonyms(wordnet, processor.search_word)
    /\ run # None => \A i \in 1..Len(run.lookups) : ~run.lookups[i].restrict

\* C11's case: the search_word setter has moved a kept, unrestricted processor
\* to a word whose synonyms differ from those of the word it held before.
C11_Witness ==
    /\ run # None
    /\ "search_word" \in run.updates
    /\ ~processor.restrict
    /\ processor.synonyms # <<>>
    /\ \E w \in GuiWords : /\ w # processor.search_word
                           /\ get_synonyms(wordnet, w) # processor.synonyms

\* C12: the search word is literal text in the pattern: a sentence is a match
\* only if the word's own characters, or unrestricted a synonym's, are in it
\* case-insensitively.  (Stated for patterns without an empty alternative.)
C12_WordIsLiteralText ==
    (mpc = "matched" /\ NoEmptyAlternative /\ matches # <<>>)
        => \/ OccursIn(query.search_word, Sentence)
           \/ /\ ~query.restrict
              /\ \E i \in 1..Len(query.synonyms) : OccursIn(query.synonyms[i], Sentence)

\* C13: a search whose root folder does not exist does not end as a normal
\* run: process_files does not return an (empty) aggregate for it.
C13_MissingFolderIsScanError ==
    (RunEnded /\ processor.search_folder \in MissingFolders)
        => last.outcome # "returned"

\* C14: in every step, while the folder stays the same the entries of
\* tokenized_sentences are kept as they are, whatever word or restrict the
\* search has; a search on another folder starts with no entry; and a call of
\* search_file extracts a document only when the cache has no entry for it (so
\* that, entries being kept, each document is extracted at most once).
C14_CacheKeptAcrossQueries ==
    [][/\ (processor # None /\ processor' # None
              /\ current_directory' = current_directory)
           => \A path \in DOMAIN processor.tokenized_sentences :
                  /\ path \in DOMAIN processor'.tokenized_sentences
                  /\ processor'.tokenized_sentences[path]
                         = processor.tokenized_sentences[path]
       /\ (processor' # None /\ current_directory' # current_directory)
           => processor'.tokenized_sentences = EmptyMap
       /\ (pc \in {"dispatch", "collect", "unwind"} /\ pc' = pc)
           => \A path \in DOMAIN run.futures :
                  (run.futures[path].state = "running"
                       /\ run'.futures[path].state = "returned"
                       /\ run'.futures[path].extracted)
                      => path \notin DOMAIN processor.tokenized_sentences]_vars

\* C14's case: a search with another word on the same folder has run a document
\* whose sentences it found in the cache, and did not extract it again.
C14_Witness ==
    /\ pc \in {"dispatch", "collect"}
    /\ "search_word" \in run.updates
    /\ \E path \in DOMAIN run.futures :
          /\ run.futures[path].state = "returned"
          /\ ~run.futures[path].extracted
          /\ path \in DOMAIN processor.tokenized_sentences

\* the aggregate holds, for the tasks whose futures are given, one entry
\* [path, number of matches, matches] for each document in which the
\* processor's query has a match, and nothing else
AggregateExact(results, futures) ==
    /\ \A i \in 1..Len(results) : results[i].file_path \in DOMAIN futures
    /\ \A path \in DOMAIN futures :
          LET found == LWS_process_text(processor, LinesOfPages(Content(path), 0),
                                        processor.restrict)
              entries == {i \in 1..Len(results) : results[i].file_path = path}
          IN  IF found # <<>>
              THEN /\ Cardinality(entries) = 1
                   /\ \A i \in entries : /\ results[i].n = Len(found)
                                          /\ results[i].n > 0
                                          /\ results[i].matches = found
              ELSE entries = {}

\* C15: whenever process_files returns, every document of the folder had a
\* task and every task has completed, and what is returned holds exactly one
\* [path, matchCount, matches] for each document with a match, matchCount being
\* the number of its matches, and no entry for a document without one,
\* whatever the order in which the workers finished.
C15_AggregateCompleteAndExact ==
    [][(pc = "collect" /\ pc' \in {"idle", "update"})
           => /\ DOMAIN last'.futures
                     = {get_files(processor.search_folder)[i] :
                            i \in 1..Len(get_files(processor.search_folder))}
              /\ \A path \in DOMAIN last'.futures :
                     last'.futures[path].state = "returned"
              /\ AggregateExact(last'.results, last'.futures)]_vars

\* C15's case: process_files has returned for a folder of two documents of
\* which one has a match; the aggregate holds that document alone.
C15_Witness ==
    /\ RunEnded
    /\ last.outcome = "returned"
    /\ Cardinality(DOMAIN last.futures) = 2
    /\ Len(last.results) = 1
    /\ \E path \in DOMAIN last.futures : last.futures[path].result = None

\* the processor as it would be with the query the running search() was
\* started with
WithOwnQuery ==
    [processor EXCEPT !.search_word = run.search_word,
                      !.restrict = run.restrict_search,
                      !.synonyms = LWS_synonyms(wordnet, run.search_word,
                                                run.restrict_search)]

\* C16: what a worker of a run returns for a document is what matching with
\* the word, the flag and the synonyms the run was started with gives (the
\* query its search() classifies and displays with), whatever search was
\* started while the run was under way.
C16_RunMatchesWithItsOwnQuery ==
    pc \in {"dispatch", "collect", "unwind"}
        => \A path \in DOMAIN run.futures :
               run.futures[path].state = "returned"
                   => run.futures[path].result = search_file(WithOwnQuery, path)

\* SpecPages: the sentence at 0-based position s of 0-based page p holds a match
\* of the query
HitAt(p, s) ==
    FindAll(LWS_search_pattern(query, query.restrict), pages[p + 1][s + 1]) # <<>>

\* C17: the matches process_text returns for a document are its matching
\* sentences, each once, pages in order and the sentences of a page in order,
\* and the sentence number of a match is the 0-based position of its sentence
\* in its own page (also after pages without sentences).
C17_SentenceIndexRestartsPerPage ==
    mpc = "matched"
        => /\ \A i \in 1..Len(matches) :
                  /\ matches[i].page_num \in 0..(Len(pages) - 1)
                  /\ matches[i].sentence_num
                         \in 0..(Len(pages[matches[i].page_num + 1]) - 1)
                  /\ HitAt(matches[i].page_num, matches[i].sentence_num)
                  /\ matches[i].line_highlighted
                         = Highlight(LWS_search_pattern(query, query.restrict),
                                     pages[matches[i].page_num + 1]
                                          [matches[i].sentence_num + 1])
           /\ \A i, j \in 1..Len(matches) :
                  i < j => \/ matches[i].page_num < matches[j].page_num
                           \/ /\ matches[i].page_num = matches[j].page_num
                              /\ matches[i].sentence_num < matches[j].sentence_num
           /\ \A p \in 0..(Len(pages) - 1) :
                  \A s \in 0..(Len(pages[p + 1]) - 1) :
                      HitAt(p, s) => \E i \in 1..Len(matches) :
                                         /\ matches[i].page_num = p
                                         /\ matches[i].sentence_num = s

\* C17's case: the first page has no sentence, the second has two and the
\* second of them matches, and the first sentence of the third page matches:
\* its number is 0 again.
C17_Witness ==
    /\ mpc = "matched"
    /\ Len(pages) = 3
    /\ pages[1] = <<>>
    /\ Len(pages[2]) = 2
    /\ \E i \in 1..Len(matches) :
          matches[i].page_num = 1 /\ matches[i].sentence_num = 1
    /\ \E i \in 1..Len(matches) :
          matches[i].page_num = 2 /\ matches[i].sentence_num = 0

\* C18: at every point of a run, whatever the workers have done so far,
\* docs_count is what it was when process_files was called plus the number of
\* documents dispatched since; on a processor that had counted nothing it is
\* the number of documents dispatched.
C18_CountedOncePerDispatch ==
    pc \in {"dispatch", "collect", "unwind"}
        => processor.docs_count
               = run.docs_count_before + Cardinality(DOMAIN run.futures)

\* C18's case: on a processor that had counted nothing, two documents have been
\* dispatched and one worker has finished while the other still runs.
C18_Witness ==
    /\ pc \in {"dispatch", "collect"}
    /\ run.docs_count_before = 0
    /\ processor.docs_count = 2
    /\ \E p1, p2 \in DOMAIN run.futures :
          /\ run.futures[p1].state = "returned"
          /\ run.futures[p2].state = "running"

\* C19: in a run, the paths still to be yielded are all different and none of
\* them has a task already: no path is given to two tasks, so no two workers
\* look up and write the same key of tokenized_sentences.
C19_NoPathScheduledTwice ==
    pc \in {"dispatch", "collect", "unwind"}
        => /\ \A i, j \in 1..Len(run.pending) :
                  i # j => run.pending[i] # run.pending[j]
           /\ \A i \in 1..Len(run.pending) :
                  run.pending[i] \notin DOMAIN run.futures

\* C19's case: two workers run at once, each on a document that is not in the
\* cache, and their paths differ.
C19_Witness ==
    /\ pc \in {"dispatch", "collect"}
    /\ \E p1, p2 \in DOMAIN run.futures :
          /\ p1 # p2
          /\ run.futures[p1].state = "running"
          /\ run.futures[p2].state = "running"
          /\ p1 \notin DOMAIN processor.tokenized_sentences
          /\ p2 \notin DOMAIN processor.tokenized_sentences

\* C20: a call of search_file that raises gives no result and leaves the cache
\* as it was: tokenized_sentences never has an entry for a document whose
\* extraction raises, every entry holds all the sentences of its document, and
\* a document whose task raised is neither cached nor in the results (so the
\* next search finds no entry and extracts again).
C20_ExtractionAllOrNothing ==
    /\ processor # None
           => \A path \in DOMAIN processor.tokenized_sentences :
                  /\ ~Unreadable(Content(path))
                  /\ processor.tokenized_sentences[path]
                         = LinesOfPages(Content(path), 0)
    /\ pc \in {"dispatch", "collect", "unwind"}
           => \A path \in DOMAIN run.futures :
                  run.futures[path].state = "raised"
                      => /\ path \notin DOMAIN processor.tokenized_sentences
                         /\ \A i \in 1..Len(run.results) :
                                run.results[i].file_path # path

\* C20's case: a second search on the same processor has run the document
\* whose second page cannot be read, and its extraction was attempted and
\* raised again; the cache has no entry for it.
C20_Witness ==
    /\ pc \in {"dispatch", "collect", "unwind"}
    /\ "processor" \notin run.updates
    /\ run.docs_count_before > 0
    /\ \E path \in DOMAIN run.futures :
          /\ run.futures[path].state = "raised"
          /\ Content(path) # Corrupt
          /\ path \notin DOMAIN processor.tokenized_sentences

(***************************************************************************)
(* Facts beside the claims, checked under SpecMatch.                       *)
(***************************************************************************)

\* restricted mode, literal word: a match exactly when the word is in the
\* sentence as a whole word
Restricted_LiteralWordExact ==
    (mpc = "matched" /\ query.restrict /\ LiteralWord)
        => (matches # <<>> <=> WholeWordOccursIn(query.search_word, Sentence))

\* a sentence that holds no << itself comes back when the markers are deleted
RoundTrip_SentenceWithoutMarker ==
    (mpc = "matched" /\ matches # <<>> /\ ~Contains(Sentence, <<"<", "<">>))
        => StripMarkers(matches[1].line_highlighted) = Sentence

\* Main.py, which puts \b around the alternation, does match whole words in
\* unrestricted mode
Main_WholeWordsInBothModes == impl = "Main" => C5_WholeWordsInBothModes

(***************************************************************************)
(* Facts beside the claims, checked under Spec.                            *)
(***************************************************************************)

\* docs_count never goes down while the processor is kept
Progress_NonDecreasing ==
    [][(processor # None /\ processor' # None /\ current_directory' = current_directory)
           => processor'.docs_count >= processor.docs_count]_vars

\* a run never ends with docs_count below all_docs: every document that was
\* enumerated has been counted, whether or not its extraction failed
RunEnd_EveryDocumentCounted ==
    (RunEnded /\ processor.docs_count <= processor.all_docs)
        => processor.docs_count = processor.all_docs

=============================================================================
